---- MODULE Spec2Model ----
(***************************************************************************)
(* A model of analyzebasic: PaperAnalyzer (utils_analyzer.py), the metric  *)
(* engine and the comparator that runs it over a collection of papers.     *)
(*                                                                         *)
(* A Python str is a sequence of one-character strings.  A Python dict is  *)
(* a record [keys, val]: keys is the sequence of its keys in insertion     *)
(* order, val the mapping.  A Python number is a record [n, d, root]       *)
(* standing for n/d, or for sqrt(n/d) when root is TRUE (statistics.stdev).*)
(***************************************************************************)
EXTENDS Integers, Sequences, FiniteSets, TLC

\* ------------------------------------------------------------------------
\* Characters and str methods
\* ------------------------------------------------------------------------
UpperLetters ==
    <<"A","B","C","D","E","F","G","H","I","J","K","L","M",
      "N","O","P","Q","R","S","T","U","V","W","X","Y","Z">>

LowerLetters ==
    <<"a","b","c","d","e","f","g","h","i","j","k","l","m",
      "n","o","p","q","r","s","t","u","v","w","x","y","z">>

Range(f) == { f[i] : i \in DOMAIN f }

UpperSet == Range(UpperLetters)

LowerSet == Range(LowerLetters)

\* \d
Digits == {"0","1","2","3","4","5","6","7","8","9"}

\* \w
WordChars == UpperSet \cup LowerSet \cup Digits \cup {"_"}

\* \s, and the white space of str.strip and str.split, among the characters
\* the texts here are made of
Spaces == {" ", "\n", "\t", "\r", "\f"}

LowerOf == [c \in UpperSet |-> LowerLetters[CHOOSE i \in 1..26 : UpperLetters[i] = c]]

UpperOf == [c \in LowerSet |-> UpperLetters[CHOOSE i \in 1..26 : LowerLetters[i] = c]]

\* one character of str.lower()
LowerChar(c) == IF c \in UpperSet THEN LowerOf[c] ELSE c

\* the other case of a letter (re.IGNORECASE)
SwapCase(c) ==
    IF c \in UpperSet THEN LowerOf[c]
    ELSE IF c \in LowerSet THEN UpperOf[c]
    ELSE c

\* str.lower()
Lower(s) == [i \in 1..Len(s) |-> LowerChar(s[i])]

\* s[a-1 : b] of Python, as positions a..b of the sequence
Slice(s, a, b) == IF a > b THEN <<>> ELSE SubSeq(s, a, b)

\* needle in s (substring test), needle non-empty
Contains(s, needle) ==
    \E i \in 1..(Len(s) - Len(needle) + 1) :
        SubSeq(s, i, i + Len(needle) - 1) = needle

\* str.strip()
Strip(s) ==
    LET keep == { i \in 1..Len(s) : s[i] \notin Spaces }
    IN  IF keep = {} THEN <<>>
        ELSE LET a == CHOOSE i \in keep : \A j \in keep : i <= j
                 b == CHOOSE i \in keep : \A j \in keep : j <= i
             IN  SubSeq(s, a, b)

\* str.split(): the maximal runs of non-whitespace characters
RECURSIVE SplitWs(_, _)
SplitWs(s, i) ==
    LET from == { j \in i..Len(s) : s[j] \notin Spaces }
    IN  IF from = {} THEN <<>>
        ELSE LET a == CHOOSE j \in from : \A j2 \in from : j <= j2
                 stop == { j \in a..Len(s) : s[j] \in Spaces }
                 b == IF stop = {} THEN Len(s) + 1
                      ELSE CHOOSE j \in stop : \A j2 \in stop : j <= j2
             IN  <<SubSeq(s, a, b - 1)>> \o SplitWs(s, b)

Split(s) == SplitWs(s, 1)

\* str.split(sep) for a one-character separator: every piece, empty ones too
RECURSIVE SplitFrom(_, _, _)
SplitFrom(s, sep, i) ==
    LET at == { j \in i..Len(s) : s[j] = sep }
    IN  IF at = {} THEN <<Slice(s, i, Len(s))>>
        ELSE LET j == CHOOSE k \in at : \A k2 \in at : k <= k2
             IN  <<Slice(s, i, j - 1)>> \o SplitFrom(s, sep, j + 1)

SplitOn(s, sep) == SplitFrom(s, sep, 1)

\* sep.join(parts)
RECURSIVE Join(_, _)
Join(parts, sep) ==
    IF parts = <<>> THEN <<>>
    ELSE IF Len(parts) = 1 THEN parts[1]
    ELSE parts[1] \o sep \o Join(Tail(parts), sep)

\* ------------------------------------------------------------------------
\* Regular expressions (module re): patterns as trees, matched by
\* backtracking.  Match gives the end positions of the matches of r that
\* start at i, in the order the backtracking matcher tries them, so the
\* head is the match re reports.
\* ------------------------------------------------------------------------
Cls(S) == [t |-> "cls", s |-> S]

Dot == [t |-> "any"]

Cat(rs) == [t |-> "cat", rs |-> rs]

Alt(rs) == [t |-> "alt", rs |-> rs]

Star(r) == [t |-> "star", r |-> r, greedy |-> TRUE]

LazyStar(r) == [t |-> "star", r |-> r, greedy |-> FALSE]

Plus(r) == Cat(<<r, Star(r)>>)

Opt(r) == Alt(<<r, Cat(<<>>)>>)

Lit(w) == Cat([i \in 1..Len(w) |-> Cls({w[i]})])

Bol == [t |-> "bol"]

Eol == [t |-> "eol"]

EndZ == [t |-> "endz"]

WordB == [t |-> "wordb"]

IsWordAt(s, i) == i >= 1 /\ i <= Len(s) /\ s[i] \in WordChars

RECURSIVE Match(_, _, _, _)
RECURSIVE MatchAll(_, _, _, _)
RECURSIVE MatchCat(_, _, _, _)
RECURSIVE MatchAlt(_, _, _, _)

\* fl: the flags, a subset of {"I", "M"} (DOTALL is the only use of '.')
Match(r, s, i, fl) ==
    CASE r.t = "cls" ->
            IF i <= Len(s) /\ (s[i] \in r.s \/ ("I" \in fl /\ SwapCase(s[i]) \in r.s))
            THEN <<i + 1>> ELSE <<>>
      [] r.t = "any" -> IF i <= Len(s) THEN <<i + 1>> ELSE <<>>
      [] r.t = "cat" -> MatchCat(r.rs, s, <<i>>, fl)
      [] r.t = "alt" -> MatchAlt(r.rs, s, i, fl)
      [] r.t = "star" ->
            \* r.r matches one character: the run of them from i ends before k
            LET stop == { j \in i..Len(s) : Match(r.r, s, j, fl) = <<>> }
                k == IF stop = {} THEN Len(s) + 1
                     ELSE CHOOSE j \in stop : \A j2 \in stop : j <= j2
            IN  IF r.greedy THEN [n \in 1..(k - i + 1) |-> k + 1 - n]
                ELSE [n \in 1..(k - i + 1) |-> i + n - 1]
      [] r.t = "bol" ->
            IF i = 1 \/ ("M" \in fl /\ s[i - 1] = "\n") THEN <<i>> ELSE <<>>
      [] r.t = "eol" ->
            IF i = Len(s) + 1 \/ (i = Len(s) /\ s[i] = "\n")
               \/ ("M" \in fl /\ s[i] = "\n")
            THEN <<i>> ELSE <<>>
      [] r.t = "endz" -> IF i = Len(s) + 1 THEN <<i>> ELSE <<>>
      [] r.t = "wordb" ->
            IF IsWordAt(s, i - 1) # IsWordAt(s, i) THEN <<i>> ELSE <<>>

MatchAll(r, s, starts, fl) ==
    IF starts = <<>> THEN <<>>
    ELSE IF Len(starts) = 1 THEN Match(r, s, starts[1], fl)
    ELSE LET h == Len(starts) \div 2
         IN  MatchAll(r, s, SubSeq(starts, 1, h), fl)
             \o MatchAll(r, s, SubSeq(starts, h + 1, Len(starts)), fl)

MatchCat(rs, s, starts, fl) ==
    IF rs = <<>> \/ starts = <<>> THEN starts
    ELSE MatchCat(Tail(rs), s, MatchAll(Head(rs), s, starts, fl), fl)

MatchAlt(rs, s, i, fl) ==
    IF rs = <<>> THEN <<>>
    ELSE Match(Head(rs), s, i, fl) \o MatchAlt(Tail(rs), s, i, fl)

\* re.match(r, s): the match at the start of s
ReMatch(r, s, fl) == Match(r, s, 1, fl) # <<>>

\* re.search(r, s): is there a match anywhere
ReSearch(r, s, fl) == \E i \in 1..(Len(s) + 1) : Match(r, s, i, fl) # <<>>

\* the first position from i on where r matches, 0 when there is none (no
\* pattern of the program matches the empty string)
NextMatch(r, s, i, fl) ==
    LET at == { j \in i..Len(s) : Match(r, s, j, fl) # <<>> }
    IN  IF at = {} THEN 0 ELSE CHOOSE j \in at : \A j2 \in at : j <= j2

\* re.findall(r, s): the non-overlapping matches, left to right
RECURSIVE FindAllFrom(_, _, _, _)
FindAllFrom(r, s, i, fl) ==
    LET j == NextMatch(r, s, i, fl)
    IN  IF j = 0 THEN <<>>
        ELSE LET e == Head(Match(r, s, j, fl))
             IN  <<SubSeq(s, j, e - 1)>> \o FindAllFrom(r, s, e, fl)

FindAll(r, s, fl) == FindAllFrom(r, s, 1, fl)

\* re.search(pre (grp) post, s): found, and group(1) of the first match
FirstGroupEnd(post, s, ks, fl) ==
    LET ok == { n \in 1..Len(ks) : Match(post, s, ks[n], fl) # <<>> }
    IN  IF ok = {} THEN 0 ELSE ks[CHOOSE n \in ok : \A n2 \in ok : n <= n2]

RECURSIVE FirstGroup(_, _, _, _, _)
FirstGroup(grp, post, s, js, fl) ==
    IF js = <<>> THEN [found |-> FALSE, group |-> <<>>]
    ELSE LET j == Head(js)
             k == FirstGroupEnd(post, s, Match(grp, s, j, fl), fl)
         IN  IF k # 0 THEN [found |-> TRUE, group |-> Slice(s, j, k - 1)]
             ELSE FirstGroup(grp, post, s, Tail(js), fl)

SearchGroup(pre, grp, post, s, fl) ==
    LET at == { i \in 1..(Len(s) + 1) :
                  FirstGroup(grp, post, s, Match(pre, s, i, fl), fl).found }
    IN  IF at = {} THEN [found |-> FALSE, group |-> <<>>]
        ELSE LET i == CHOOSE j \in at : \A j2 \in at : j <= j2
             IN  FirstGroup(grp, post, s, Match(pre, s, i, fl), fl)

\* re.split(r, s): the pieces of s between the matches of r
RECURSIVE ReSplitFrom(_, _, _, _)
ReSplitFrom(r, s, i, fl) ==
    LET j == NextMatch(r, s, i, fl)
    IN  IF j = 0 THEN <<Slice(s, i, Len(s))>>
        ELSE <<Slice(s, i, j - 1)>> \o ReSplitFrom(r, s, Head(Match(r, s, j, fl)), fl)

ReSplit(r, s, fl) == ReSplitFrom(r, s, 1, fl)

\* ------------------------------------------------------------------------
\* Numbers
\* ------------------------------------------------------------------------
RECURSIVE Gcd(_, _)
Gcd(a, b) == IF b = 0 THEN a ELSE Gcd(b, a % b)

\* n/d in lowest terms (n >= 0, d > 0)
Rat(n, d) == LET g == Gcd(n, d) IN [n |-> n \div g, d |-> d \div g, root |-> FALSE]

Num(k) == [n |-> k, d |-> 1, root |-> FALSE]

Zero == Num(0)

RECURSIVE SumSeq(_)
SumSeq(q) == IF q = <<>> THEN 0 ELSE Head(q) + SumSeq(Tail(q))

MaxSeq(q) == CHOOSE v \in Range(q) : \A w \in Range(q) : w <= v

MinSeq(q) == CHOOSE v \in Range(q) : \A w \in Range(q) : v <= w

IsSquare(k) == \E r \in 0..k : r * r = k

Sqrt(k) == CHOOSE r \in 0..k : r * r = k

\* statistics.mean
Mean(q) == Rat(SumSeq(q), Len(q))

\* statistics.stdev: the root of the sample variance, Len(q) >= 2
Stdev(q) ==
    LET n == Len(q)
        num == n * SumSeq([i \in 1..n |-> q[i] * q[i]]) - SumSeq(q) * SumSeq(q)
        v == Rat(num, n * (n - 1))
    IN  IF IsSquare(v.n) /\ IsSquare(v.d) THEN Rat(Sqrt(v.n), Sqrt(v.d))
        ELSE [n |-> v.n, d |-> v.d, root |-> TRUE]

\* round(n/d, 2): to the nearest hundredth, a tie to the even one (a tie is a
\* value k/200 with k odd, which n/d reaches only when 8 divides d)
Round2(n, d) ==
    LET q == (100 * n) \div d
        r == (100 * n) % d
    IN  IF 2 * r > d \/ (2 * r = d /\ q % 2 = 1) THEN Rat(q + 1, 100) ELSE Rat(q, 100)

\* ------------------------------------------------------------------------
\* PaperAnalyzer.__init__
\* ------------------------------------------------------------------------
hedging_words ==
    {<<"m","a","y">>,
     <<"m","i","g","h","t">>,
     <<"c","o","u","l","d">>,
     <<"p","o","s","s","i","b","l","y">>,
     <<"p","e","r","h","a","p","s">>,
     <<"a","p","p","e","a","r","s">>,
     <<"s","u","g","g","e","s","t","s">>,
     <<"s","e","e","m","s">>,
     <<"l","i","k","e","l","y">>,
     <<"p","o","t","e","n","t","i","a","l","l","y">>}

transition_phrases ==
    {<<"f","u","r","t","h","e","r","m","o","r","e">>,
     <<"m","o","r","e","o","v","e","r">>,
     <<"h","o","w","e","v","e","r">>,
     <<"t","h","e","r","e","f","o","r","e">>,
     <<"c","o","n","s","e","q","u","e","n","t","l","y">>,
     <<"t","h","u","s">>,
     <<"h","e","n","c","e">>,
     <<"a","c","c","o","r","d","i","n","g","l","y">>,
     <<"d","r","a","w","s"," ","o","n">>,
     <<"p","a","v","e","s"," ","t","h","e"," ","w","a","y">>,
     <<"t","a","k","e","n"," ","t","o","g","e","t","h","e","r">>}

\* ------------------------------------------------------------------------
\* PaperAnalyzer.calculate_metrics
\* ------------------------------------------------------------------------
Dg == Cls(Digits)

Ws == Cls(Spaces)

AZ == Cls(UpperSet)

az == Cls(LowerSet)

Alpha == Cls(UpperSet \cup LowerSet)

Wd == Cls(WordChars)

Ch(c) == Cls({c})

\* \d{4}
Dg4 == Cat(<<Dg, Dg, Dg, Dg>>)

\* r'\b\w+\b'
word_pattern == Cat(<<WordB, Plus(Wd), WordB>>)

\* r'[.!?]+'
sentence_pattern == Plus(Cls({".", "!", "?"}))

words_of(text) == FindAll(word_pattern, Lower(text), {})

sentences_of(text) == ReSplit(sentence_pattern, text, {})

\* para_loop with the paragraph closed after more than 4 sentences
RECURSIVE para_loop_gt4(_, _, _)
para_loop_gt4(sents, acc, cur) ==
    IF sents = <<>> THEN (IF cur # <<>> THEN Append(acc, cur) ELSE acc)
    ELSE LET sent == Head(sents)
         IN  IF Len(Strip(sent)) > 0
             THEN IF Contains(sent, <<"\n", "\n">>) \/ (cur # <<>> /\ Len(cur) > 4)
                  THEN para_loop_gt4(Tail(sents),
                                     IF cur # <<>> THEN Append(acc, cur) ELSE acc,
                                     <<Strip(sent)>>)
                  ELSE para_loop_gt4(Tail(sents), acc, Append(cur, Strip(sent)))
             ELSE para_loop_gt4(Tail(sents), acc, cur)

\* the paragraph loop: acc is the list of the current_para lists appended so
\* far, cur is current_para
RECURSIVE para_loop(_, _, _)
para_loop(sents, acc, cur) ==
    IF sents = <<>> THEN (IF cur # <<>> THEN Append(acc, cur) ELSE acc)
    ELSE LET sent == Head(sents)
         IN  IF Len(Strip(sent)) > 0
             THEN IF Contains(sent, <<"\n", "\n">>) \/ (cur # <<>> /\ Len(cur) > 3)
                  THEN para_loop(Tail(sents),
                                 IF cur # <<>> THEN Append(acc, cur) ELSE acc,
                                 <<Strip(sent)>>)
                  ELSE para_loop(Tail(sents), acc, Append(cur, Strip(sent)))
             ELSE para_loop(Tail(sents), acc, cur)

\* the current_para lists in the order they are appended to paragraphs
para_groups(text) == para_loop(sentences_of(text), <<>>, <<>>)

\* paragraphs: ' '.join(current_para) of each
paragraphs_of(text) ==
    LET g == para_groups(text) IN [k \in 1..Len(g) |-> Join(g[k], <<" ">>)]

hedging_per_100(text) ==
    LET words == words_of(text)
        hedging_count == Cardinality({ i \in 1..Len(words) : words[i] \in hedging_words })
    IN  IF words # <<>> THEN Rat(hedging_count * 100, Len(words)) ELSE Zero

\* r'^\d+\.?\s+[A-Z][a-z]+|^[A-Z][A-Z\s]+$'
section_pattern ==
    Alt(<<Cat(<<Bol, Plus(Dg), Opt(Ch(".")), Plus(Ws), AZ, Plus(az)>>),
          Cat(<<Bol, AZ, Plus(Cls(UpperSet \cup Spaces)), Eol>>)>>)

section_count(text) == Num(Len(FindAll(section_pattern, text, {"M"})))

et_al == Cat(<<Plus(Ws), Lit(<<"e","t">>), Plus(Ws), Lit(<<"a","l">>), Ch(".")>>)

paren_year == Cat(<<Ch("("), Dg4, Ch(")")>>)

citation_patterns ==
    << Cat(<<Ch("["), Plus(Dg), Ch("]")>>),
       Cat(<<Ch("["), Plus(Cls(Digits \cup {",", "-"} \cup Spaces)), Ch("]")>>),
       Cat(<<Ch("("), Plus(Alpha), et_al, Opt(Ch(",")), Plus(Ws), Dg4, Ch(")")>>),
       Cat(<<Ch("("), Plus(Alpha), Plus(Ws), Lit(<<"a","n","d">>), Plus(Ws), Plus(Alpha),
             Opt(Ch(",")), Plus(Ws), Dg4, Ch(")")>>),
       Cat(<<Ch("("), Plus(Alpha), Opt(Ch(",")), Plus(Ws), Dg4, Ch(")")>>),
       Cat(<<AZ, Plus(az), et_al, Plus(Ws), paren_year>>),
       Cat(<<AZ, Plus(az), et_al>>),
       Cat(<<AZ, Plus(az), Plus(Ws), Lit(<<"a","n","d">>), Plus(Ws), AZ, Plus(az),
             Plus(Ws), paren_year>>) >>

RECURSIVE citations_from(_, _)
citations_from(text, k) ==
    IF k > Len(citation_patterns) THEN <<>>
    ELSE FindAll(citation_patterns[k], text, {}) \o citations_from(text, k + 1)

\* len(set(citations))
citation_count(text) == Cardinality(Range(citations_from(text, 1)))

\* the header of each ref_pattern, up to its group: r'References?\s*\n' ...
ref_headers ==
    << Cat(<<Lit(<<"R","e","f","e","r","e","n","c","e">>), Opt(Ch("s")), Star(Ws), Ch("\n")>>),
       Cat(<<Lit(<<"R","E","F","E","R","E","N","C","E">>), Opt(Ch("S")), Star(Ws), Ch("\n")>>),
       Cat(<<Lit(<<"B","i","b","l","i","o","g","r","a","p","h","y">>), Star(Ws), Ch("\n")>>),
       Cat(<<Lit(<<"W","o","r","k","s"," ","C","i","t","e","d">>), Star(Ws), Ch("\n")>>) >>

\* ... r'(.*?)' ...
ref_group == LazyStar(Dot)

\* ... r'(?:\n\n[A-Z]|\Z)'
ref_tail == Alt(<<Cat(<<Ch("\n"), Ch("\n"), AZ>>), EndZ>>)

\* the loop over ref_patterns: the first pattern that matches
RECURSIVE ref_section_from(_, _)
ref_section_from(text, k) ==
    IF k > Len(ref_headers) THEN [found |-> FALSE, group |-> <<>>]
    ELSE LET m == SearchGroup(ref_headers[k], ref_group, ref_tail, text, {"I"})
         IN  IF m.found THEN m ELSE ref_section_from(text, k + 1)

ref_section(text) == ref_section_from(text, 1)

\* r'\b(?:19|20)\d{2}\b'
year_pattern ==
    Cat(<<WordB, Alt(<<Lit(<<"1","9">>), Lit(<<"2","0">>)>>), Dg, Dg, WordB>>)

\* does the stripped line start a reference
starts_reference(line) ==
    \/ ReMatch(Cat(<<Bol, Ch("["), Plus(Dg), Ch("]")>>), line, {})
    \/ ReMatch(Cat(<<Bol, Plus(Dg), Ch(".")>>), line, {})
    \/ ReMatch(Cat(<<Bol, AZ, Plus(az), Opt(Ch(",")), Plus(Ws), AZ>>), line, {})
    \/ ReMatch(Cat(<<Bol, AZ, Plus(az), Plus(Ws), AZ, Plus(az)>>), line, {})

\* the indexes of the lines of ref_text appended to ref_entries
ref_entries(ref_text) ==
    LET lines == SplitOn(ref_text, "\n")
    IN  { i \in 1..Len(lines) :
            /\ starts_reference(Strip(lines[i]))
            /\ \/ ReSearch(year_pattern, Strip(lines[i]), {})
               \/ (i + 1 <= Len(lines) /\ ReSearch(year_pattern, lines[i + 1], {})) }

\* reference_count without the fallback to the citation count
reference_count_nofallback(text) ==
    LET m == ref_section(text)
    IN  IF m.found THEN Cardinality(ref_entries(m.group)) ELSE 0

reference_count(text) ==
    LET m == ref_section(text)
    IN  IF m.found THEN Cardinality(ref_entries(m.group))
        ELSE citation_count(text)

para_lengths(text) ==
    LET p == paragraphs_of(text)
    IN  SelectSeq([k \in 1..Len(p) |-> Len(Split(p[k]))], LAMBDA n : n > 10)

paragraph_length_std(text) ==
    LET pl == para_lengths(text)
    IN  IF pl # <<>> /\ Len(pl) > 1 THEN Stdev(pl) ELSE Zero

paragraph_length_mean(text) ==
    LET pl == para_lengths(text)
    IN  IF pl # <<>> /\ Len(pl) > 1 THEN Mean(pl)
        ELSE IF pl # <<>> THEN Rat(SumSeq(pl), Len(pl)) ELSE Zero

\* r'\d+\.\d+'
decimal_pattern == Cat(<<Plus(Dg), Ch("."), Plus(Dg)>>)

avg_decimal_places(text) ==
    LET decimals == FindAll(decimal_pattern, text, {})
        precisions == [k \in 1..Len(decimals) |-> Len(SplitOn(decimals[k], ".")[2])]
    IN  IF decimals # <<>> THEN Mean(precisions) ELSE Zero

\* r'\d+\.?\d*%|\d+×|\d+x|factor of \d+'
number_pattern ==
    Alt(<<Cat(<<Plus(Dg), Opt(Ch(".")), Star(Dg), Ch("%")>>),
          Cat(<<Plus(Dg), Ch("×")>>),
          Cat(<<Plus(Dg), Ch("x")>>),
          Cat(<<Lit(<<"f","a","c","t","o","r"," ","o","f"," ">>), Plus(Dg)>>)>>)

round_markers == {<<"0","%">>, <<"5","%">>, <<"×">>, <<"x">>}

round_number_ratio(text) ==
    LET numbers == FindAll(number_pattern, text, {})
        round_count == Cardinality({ k \in 1..Len(numbers) :
                                       \E m \in round_markers : Contains(numbers[k], m) })
        total == IF Len(numbers) > 1 THEN Len(numbers) ELSE 1
    IN  Rat(round_count, total)

\* trans_count / max(len(text) / 3000, 1)
transitions_per_page(text) ==
    LET text_lower == Lower(text)
        trans_count == Cardinality({ p \in transition_phrases : Contains(text_lower, p) })
    IN  IF Len(text) > 3000 THEN Rat(trans_count * 3000, Len(text)) ELSE Num(trans_count)

\* r'\(i+\)|\([a-z]\)|\(\d\)'
contrib_pattern ==
    Alt(<<Cat(<<Ch("("), Plus(Ch("i")), Ch(")")>>),
          Cat(<<Ch("("), az, Ch(")")>>),
          Cat(<<Ch("("), Dg, Ch(")")>>)>>)

contribution_list_items(text) == Num(Len(FindAll(contrib_pattern, Lower(text), {})))

\* abstract_labels without the r'[:\s]*' after the label
abstract_labels_bare ==
    << Lit(<<"a","b","s","t","r","a","c","t">>), Lit(<<"A","B","S","T","R","A","C","T">>), Lit(<<"S","u","m","m","a","r","y">>) >>

\* the label of each abstract_pattern, up to its group: r'abstract[:\s]*' ...
abstract_labels ==
    << Cat(<<Lit(<<"a","b","s","t","r","a","c","t">>), Star(Cls({":"} \cup Spaces))>>),
       Cat(<<Lit(<<"A","B","S","T","R","A","C","T">>), Star(Cls({":"} \cup Spaces))>>),
       Cat(<<Lit(<<"S","u","m","m","a","r","y">>), Star(Cls({":"} \cup Spaces))>>) >>

\* ... r'(?:introduction|keywords|1\s+introduction|\n1\.)' and its two variants
abstract_tails ==
    << Alt(<<Lit(<<"i","n","t","r","o","d","u","c","t","i","o","n">>), Lit(<<"k","e","y","w","o","r","d","s">>),
             Cat(<<Ch("1"), Plus(Ws), Lit(<<"i","n","t","r","o","d","u","c","t","i","o","n">>)>>),
             Cat(<<Ch("\n"), Ch("1"), Ch(".")>>)>>),
       Alt(<<Lit(<<"I","N","T","R","O","D","U","C","T","I","O","N">>), Lit(<<"K","e","y","w","o","r","d","s">>),
             Cat(<<Ch("1"), Plus(Ws), Lit(<<"I","N","T","R","O","D","U","C","T","I","O","N">>)>>),
             Cat(<<Ch("\n"), Ch("1"), Ch(".")>>)>>),
       Alt(<<Lit(<<"i","n","t","r","o","d","u","c","t","i","o","n">>),
             Cat(<<Ch("1"), Plus(Ws), Lit(<<"i","n","t","r","o","d","u","c","t","i","o","n">>)>>),
             Cat(<<Ch("\n"), Ch("1"), Ch(".")>>)>>) >>

\* the loop over abstract_patterns: the first pattern that matches
RECURSIVE abstract_match_from(_, _)
abstract_match_from(text, k) ==
    IF k > Len(abstract_labels) THEN [found |-> FALSE, group |-> <<>>]
    ELSE LET m == SearchGroup(abstract_labels[k], LazyStar(Dot), abstract_tails[k],
                              text, {"I"})
         IN  IF m.found THEN m ELSE abstract_match_from(text, k + 1)

\* abstract_entry that sets no key when no pattern matches
abstract_entry_nokey(text) ==
    LET m == abstract_match_from(text, 1)
    IN  IF m.found THEN "abstract_word_count" :> Num(Len(Split(m.group)))
        ELSE [k \in {} |-> Zero]

\* the abstract_word_count entry of metrics, set in the loop or after it
abstract_entry(text) ==
    LET m == abstract_match_from(text, 1)
    IN  IF m.found THEN "abstract_word_count" :> Num(Len(Split(m.group)))
        ELSE "abstract_word_count" :> Zero

sentence_length_std(text) ==
    LET sents == sentences_of(text)
        sl == SelectSeq([k \in 1..Len(sents) |-> Len(Split(sents[k]))], LAMBDA n : n > 3)
    IN  IF sl # <<>> /\ Len(sl) > 1 THEN Stdev(sl) ELSE Zero

\* self.page_count / self.page_texts may not be set yet: getattr(self, name, default)
getattr(self, name, default) == IF name \in DOMAIN self THEN self[name] ELSE default

calculate_metrics(self, text) ==
    ("page_count" :> Num(getattr(self, "page_count", 0)))
    @@ ("hedging_per_100" :> hedging_per_100(text))
    @@ ("section_count" :> section_count(text))
    @@ ("citation_count" :> Num(citation_count(text)))
    @@ ("reference_count" :> Num(reference_count(text)))
    @@ ("paragraph_length_std" :> paragraph_length_std(text))
    @@ ("paragraph_length_mean" :> paragraph_length_mean(text))
    @@ ("avg_decimal_places" :> avg_decimal_places(text))
    @@ ("round_number_ratio" :> round_number_ratio(text))
    @@ ("transitions_per_page" :> transitions_per_page(text))
    @@ ("contribution_list_items" :> contribution_list_items(text))
    @@ abstract_entry(text)
    @@ ("sentence_length_std" :> sentence_length_std(text))

\* ------------------------------------------------------------------------
\* PaperAnalyzer._calculate_we_stats
\* ------------------------------------------------------------------------
\* r'\bwe\b'
we_pattern == Cat(<<WordB, Lit(<<"w","e">>), WordB>>)

\* we_count without the .lower()
we_count_cased(page_text) == Len(FindAll(we_pattern, page_text, {}))

\* len(re.findall(we_pattern, page_text.lower()))
we_count(page_text) == Len(FindAll(we_pattern, Lower(page_text), {}))

EmptyDict == [keys |-> <<>>, val |-> <<>>]

\* DictSet that puts a new key first
DictSet_front(d, k, v) ==
    IF k \in Range(d.keys) THEN [d EXCEPT !.val = (k :> v) @@ d.val]
    ELSE [keys |-> <<k>> \o d.keys, val |-> (k :> v) @@ d.val]

\* d[k] = v
DictSet(d, k, v) ==
    IF k \in Range(d.keys) THEN [d EXCEPT !.val = (k :> v) @@ d.val]
    ELSE [keys |-> Append(d.keys, k), val |-> (k :> v) @@ d.val]

\* list(d.values())
DictValues(d) == [i \in 1..Len(d.keys) |-> d.val[d.keys[i]]]

\* the loop over enumerate(page_texts, start=1), from page i on
RECURSIVE we_per_page_loop(_, _, _)
we_per_page_loop(page_texts, i, d) ==
    IF i > Len(page_texts) THEN d
    ELSE we_per_page_loop(page_texts, i + 1, DictSet(d, i, we_count(page_texts[i])))

\* we_per_page with enumerate's default start, 0
we_per_page_from0(self) ==
    LET pt == getattr(self, "page_texts", <<>>)
    IN  [keys |-> [i \in 1..Len(pt) |-> i - 1],
         val |-> [i \in 0..(Len(pt) - 1) |-> we_count(pt[i + 1])]]

we_per_page(self) == we_per_page_loop(getattr(self, "page_texts", <<>>), 1, EmptyDict)

\* min(positive_values) or 0
we_min(we_values) ==
    LET positive_values == SelectSeq(we_values, LAMBDA v : v > 0)
    IN  IF positive_values # <<>> THEN Num(MinSeq(positive_values)) ELSE Zero

calculate_we_stats(self, text) ==
    LET per_page == we_per_page(self)
        we_values == DictValues(per_page)
        total_we == SumSeq(we_values)
        words == words_of(text)
    IN  [ we_count_per_page |-> per_page,
          we_count_total |-> Num(total_we),
          we_count_per_page_min |-> we_min(we_values),
          we_count_per_page_max |->
              IF we_values # <<>> THEN Num(MaxSeq(we_values)) ELSE Zero,
          we_count_per_page_avg |->
              IF we_values # <<>> THEN Round2(SumSeq(we_values), Len(we_values)) ELSE Zero,
          we_per_1000 |->
              IF words # <<>> THEN Rat(total_we * 1000, Len(words)) ELSE Zero ]

\* ------------------------------------------------------------------------
\* PaperAnalyzer.fetch_paper, extract_text
\* ------------------------------------------------------------------------
\* max_pages=None, and an int
None == [some |-> FALSE, v |-> 0]

Some(k) == [some |-> TRUE, v |-> k]

\* x or y, for x an Optional[int]
OrElse(x, y) == IF x.some /\ x.v # 0 THEN x.v ELSE y

Min(a, b) == IF a <= b THEN a ELSE b

\* the url requests.get is called with
request_url(url) ==
    IF Contains(url, <<"a","r","x","i","v",".","o","r","g">>) /\ ~Contains(url, <<"p","d","f">>)
    THEN LET parts == SplitOn(url, "/")
             arxiv_id == parts[Len(parts)]
         IN  <<"h","t","t","p","s",":","/","/","a","r","x","i","v",".","o","r","g","/","p","d","f","/">> \o arxiv_id \o <<".","p","d","f">>
    ELSE url

\* limit = min(max_pages or total_pages, total_pages)
page_limit(max_pages, total_pages) == Min(OrElse(max_pages, total_pages), total_pages)

\* the pages read by the loop over range(limit)
read_pages(pages, max_pages) ==
    SubSeq(pages, 1, page_limit(max_pages, Len(pages)))

\* extract_text that extends the page_texts it finds instead of replacing them
extract_text_keep(self, pages, max_pages) ==
    ("page_count" :> page_limit(max_pages, Len(pages)))
    @@ ("page_texts" :> getattr(self, "page_texts", <<>>) \o read_pages(pages, max_pages))
    @@ self

\* self after extract_text: page_count and page_texts are overwritten
extract_text(self, pages, max_pages) ==
    ("page_count" :> page_limit(max_pages, Len(pages)))
    @@ ("page_texts" :> read_pages(pages, max_pages))
    @@ self

\* "\n".join(page_texts)
full_text(page_texts) == Join(page_texts, <<"\n">>)

\* ------------------------------------------------------------------------
\* The inputs
\* ------------------------------------------------------------------------
MaxPapers == 2

MaxLimit == 2

MaxPages == 2

MaxSentences == 6

MaxChunks == 3

\* what the web serves at each url: the page texts of the PDF
Web ==
    (<<"h","t","t","p","s",":","/","/","a","r","x","i","v",".","o","r","g","/","p","d","f","/","7",".","p","d","f">> :> << <<"w","e"," ","s","h","o","w"," ","w","e"," ","c","a","n">>, <<"W","e"," ","a","l","s","o"," ","s","h","o","w">>, <<"S","e","e"," ","[","1","]",".">> >>)
    @@ (<<"h",".","o","r","g","/","b",".","p","d","f">> :> << <<"W","e"," ","m","a","y","."," ","[","2","]">>, <<"S","o"," ","w","e"," ","d","i","d">> >>)
    @@ (<<"h",".","o","r","g","/","g",".","p","d","f">> :> << <<"T","h","u","s"," ","w","e">> >>)
    @@ (<<"h",".","o","r","g","/","z",".","p","d","f">> :> << >>)

\* the corpus definition (papers.json): name -> {url, type}
Corpus ==
    [ zeta |-> [url |-> <<"a","r","x","i","v",".","o","r","g","/","a","b","s","/","7">>, type |-> "AIGen"],
      beta |-> [url |-> <<"h",".","o","r","g","/","b",".","p","d","f">>, type |-> "Human"],
      alpha |-> [url |-> <<"h",".","o","r","g","/","g",".","p","d","f">>, type |-> "AIGen"],
      empty |-> [url |-> <<"h",".","o","r","g","/","z",".","p","d","f">>, type |-> "Human"] ]

\* the sequences of distinct names, up to MaxPapers of them
NameLists ==
    { q \in UNION { [1..n -> DOMAIN Corpus] : n \in 0..MaxPapers } :
        \A i, j \in DOMAIN q : i # j => q[i] # q[j] }

\* papers.items() of a mapping with these names, in its order
ItemsOf(names) == [i \in 1..Len(names) |-> [name |-> names[i], info |-> Corpus[names[i]]]]

\* the texts made of up to n pieces of the list `pieces`
RECURSIVE Flatten(_)
Flatten(qs) == IF qs = <<>> THEN <<>> ELSE Head(qs) \o Flatten(Tail(qs))

TextsOf(pieces, n) ==
    { Flatten([i \in DOMAIN q |-> pieces[q[i]]]) :
        q \in UNION { [1..m -> DOMAIN pieces] : m \in 0..n } }

\* sentences: a word, a blank one, one that opens with a double line break
SentencePieces == << <<"a",".">>, <<" ",".">>, <<"\n","\n","b",".">> >>

RefPieces ==
    << <<"[","1","]"," ">>,
       <<"R","e","f","e","r","e","n","c","e","s"," ","\n">>,
       <<"L","i",","," ","J","."," ","2","0","2","0","\n">>,
       <<"\n","\n","A">>,
       <<"W","o","r","k","s"," ","C","i","t","e","d">>,
       <<"b","i","b","l","i","o","g","r","a","p","h","y","\n","[","3","]"," ","1","9","9","9">> >>

ExampleTexts ==
    { <<"A","b","s","t","r","a","c","t",":"," ","T","h","i","s"," ","p","a","p","e","r"," ","s","t","u","d","i","e","s"," ","X","."," ","I","n","t","r","o","d","u","c","t","i","o","n",":"," ",".",".",".">>,
      <<"s","e","e"," ","[","1","]"," ","a","n","d"," ","[","2","]">>,
      <<"3",".","1","4"," ","a","n","d"," ","2",".","5",","," ","5","0","%"," ","o","r"," ","7","x">>,
      <<"1","."," ","I","n","t","r","o","\n","W","e"," ","m","a","y"," ","(","i",")"," ","h","o","w","e","v","e","r">>,
      <<"a"," ","b"," ","c"," ","d"," ","e"," ","f"," ","g"," ","h"," ","i"," ","j"," ","k"," ","l","."," ","\n","\n","a"," ","b"," ","c"," ","d"," ","e"," ","f"," ","g"," ","h"," ","i"," ","j"," ","k","."," ","x"," ","y"," ","z"," ","w">> }

PageTexts == << <<"w","e"," ","s","h","o","w"," ","w","e"," ","c","a","n">>, <<"W","e"," ","a","l","s","o"," ","s","h","o","w">>, <<"a","w","e",","," ","w","e">>, <<>> >>

\* the page lists of up to MaxPages pages
PageLists == { [i \in DOMAIN q |-> PageTexts[q[i]]] :
                 q \in UNION { [1..m -> DOMAIN PageTexts] : m \in 0..MaxPages } }

\* PaperAnalyzer(aigen_page_limit): no page_count, no page_texts yet
NewAnalyzer(limit) == ("aigen_page_limit" :> limit)

\* ------------------------------------------------------------------------
\* State
\* ------------------------------------------------------------------------
VARIABLES
    self,       \* the PaperAnalyzer's attributes
    papers,     \* compare_papers: papers.items()
    pc,         \* where the running call stands
    idx,        \* compare_papers: the position of the loop in papers
    max_pages,  \* compare_papers: max_pages of the current paper
    pdf_file,   \* analyze_paper: the pages of the fetched PDF
    text,       \* analyze_paper: the extracted text / the text argument
    metrics,    \* analyze_paper: calculate_metrics' result
    we_stats,   \* analyze_paper: _calculate_we_stats' result
    para_lists, \* calculate_metrics: the current_para lists made into paragraphs
    results,    \* compare_papers: results
    returned,   \* what compare_papers returned to its caller, if it did
    error,      \* the exception that left compare_papers, "" if none
    fetched,    \* history: the names whose fetch was started, in order
    extracted   \* history: name -> the page texts extract_text read for it

vars == <<self, papers, pc, idx, max_pages, pdf_file, text, metrics, we_stats,
          para_lists, results, returned, error, fetched, extracted>>

EmptyResults == [base |-> EmptyDict, we_stats |-> EmptyDict]

NoWeStats == [we_count_per_page |-> EmptyDict]

\* the locals before anything ran
Fresh ==
    /\ idx = 1
    /\ max_pages = None
    /\ pdf_file = <<>>
    /\ metrics = <<>>
    /\ we_stats = NoWeStats
    /\ para_lists = <<>>
    /\ results = EmptyResults
    /\ returned = [done |-> FALSE, value |-> EmptyResults]
    /\ error = ""
    /\ fetched = <<>>
    /\ extracted = <<>>

\* ------------------------------------------------------------------------
\* PaperAnalyzer.compare_papers, with analyze_paper inlined
\* ------------------------------------------------------------------------
\* analyzer = PaperAnalyzer(limit); analyzer.compare_papers(papers)
Init ==
    /\ \E limit \in 0..MaxLimit : self = NewAnalyzer(limit)
    /\ \E names \in NameLists : papers = ItemsOf(names)
    /\ pc = "loop"
    /\ text = <<>>
    /\ Fresh

\* Raise caught per paper: the loop goes on with the next one
Raise_skip(err) ==
    /\ pc' = "loop"
    /\ error' = err
    /\ idx' = idx + 1
    /\ UNCHANGED <<results, returned>>

\* an exception leaves analyze_paper and compare_papers: nothing catches it
Raise(err) ==
    /\ pc' = "raised"
    /\ error' = err
    /\ UNCHANGED <<idx, results, returned>>

\* for name, info in papers.items(): ... max_pages
NextPaper ==
    /\ pc = "loop"
    /\ idx <= Len(papers)
    /\ max_pages' = IF papers[idx].info.type = "AIGen"
                    THEN Some(self["aigen_page_limit"]) ELSE None
    /\ pc' = "fetch"
    /\ UNCHANGED <<self, papers, idx, pdf_file, text, metrics, we_stats, para_lists,
                   results, returned, error, fetched, extracted>>

\* pdf_file = self.fetch_paper(url)
FetchPaper ==
    /\ pc = "fetch"
    /\ fetched' = Append(fetched, papers[idx].name)
    /\ pdf_file' = Web[request_url(papers[idx].info.url)]
    /\ pc' = "extract"
    /\ UNCHANGED <<self, papers, idx, max_pages, text, metrics, we_stats, para_lists,
                   results, returned, error, extracted>>

\* requests.get raises
FetchFails ==
    /\ pc = "fetch"
    /\ fetched' = Append(fetched, papers[idx].name)
    /\ Raise("FetchError")
    /\ UNCHANGED <<self, papers, max_pages, pdf_file, text, metrics, we_stats,
                   para_lists, extracted>>

\* text = self.extract_text(pdf_file, max_pages=max_pages)
ExtractText ==
    /\ pc = "extract"
    /\ self' = extract_text(self, pdf_file, max_pages)
    /\ text' = full_text(read_pages(pdf_file, max_pages))
    /\ extracted' = (papers[idx].name :> read_pages(pdf_file, max_pages)) @@ extracted
    /\ pc' = "metrics"
    /\ UNCHANGED <<papers, idx, max_pages, pdf_file, metrics, we_stats, para_lists,
                   results, returned, error, fetched>>

\* PyPDF2.PdfReader raises
ExtractFails ==
    /\ pc = "extract"
    /\ Raise("ExtractionError")
    /\ UNCHANGED <<self, papers, max_pages, pdf_file, text, metrics, we_stats,
                   para_lists, fetched, extracted>>

\* metrics = self.calculate_metrics(text)
CalculateMetrics ==
    /\ pc = "metrics"
    /\ metrics' = calculate_metrics(self, text)
    /\ para_lists' = para_groups(text)
    /\ pc' = "we"
    /\ UNCHANGED <<self, papers, idx, max_pages, pdf_file, text, we_stats,
                   results, returned, error, fetched, extracted>>

\* we_stats = self._calculate_we_stats(text)
CalculateWeStats ==
    /\ pc = "we"
    /\ we_stats' = calculate_we_stats(self, text)
    /\ pc' = "record"
    /\ UNCHANGED <<self, papers, idx, max_pages, pdf_file, text, metrics, para_lists,
                   results, returned, error, fetched, extracted>>

\* results["base"][name] = ...; results["we_stats"][name] = ...
record(res, name, base, we) ==
    [base |-> DictSet(res.base, name, base), we_stats |-> DictSet(res.we_stats, name, we)]

Record ==
    /\ pc = "record"
    /\ results' = record(results, papers[idx].name, metrics, we_stats)
    /\ idx' = idx + 1
    /\ pc' = "loop"
    /\ UNCHANGED <<self, papers, max_pages, pdf_file, text, metrics, we_stats,
                   para_lists, returned, error, fetched, extracted>>

\* return results
Return ==
    /\ pc = "loop"
    /\ idx > Len(papers)
    /\ returned' = [done |-> TRUE, value |-> results]
    /\ pc' = "returned"
    /\ UNCHANGED <<self, papers, idx, max_pages, pdf_file, text, metrics, we_stats,
                   para_lists, results, error, fetched, extracted>>

Next ==
    \/ NextPaper
    \/ FetchPaper
    \/ FetchFails
    \/ ExtractText
    \/ ExtractFails
    \/ CalculateMetrics
    \/ CalculateWeStats
    \/ Record
    \/ Return

Spec == Init /\ [][Next]_vars

\* ------------------------------------------------------------------------
\* calculate_metrics and _calculate_we_stats called on an analyzer directly
\* ------------------------------------------------------------------------
\* an analyzer whose page_count and page_texts were set
AnalyzerWith(page_count, page_texts) ==
    ("page_count" :> page_count) @@ ("page_texts" :> page_texts) @@ NewAnalyzer(0)

InitMetrics ==
    /\ \/ /\ self = NewAnalyzer(0)
          /\ text \in TextsOf(SentencePieces, MaxSentences)
                        \cup TextsOf(RefPieces, MaxChunks) \cup ExampleTexts
       \/ \E pl \in PageLists :
            /\ self = AnalyzerWith(Len(pl), pl)
            /\ text = full_text(pl)
       \/ \E n \in 0..MaxPages :
            /\ self = AnalyzerWith(n, <<>>)
            /\ text = <<>>
    /\ papers = <<>>
    /\ pc = "call"
    /\ Fresh

CallCalculateMetrics ==
    /\ pc = "call"
    /\ metrics' = calculate_metrics(self, text)
    /\ para_lists' = para_groups(text)
    /\ pc' = "called_metrics"
    /\ UNCHANGED <<self, papers, idx, max_pages, pdf_file, text, we_stats,
                   results, returned, error, fetched, extracted>>

CallCalculateWeStats ==
    /\ pc = "called_metrics"
    /\ we_stats' = calculate_we_stats(self, text)
    /\ pc' = "done"
    /\ UNCHANGED <<self, papers, idx, max_pages, pdf_file, text, metrics, para_lists,
                   results, returned, error, fetched, extracted>>

NextMetrics ==
    \/ CallCalculateMetrics
    \/ CallCalculateWeStats

SpecMetrics == InitMetrics /\ [][NextMetrics]_vars

\* ------------------------------------------------------------------------
\* Properties
\* ------------------------------------------------------------------------
Names(items) == [i \in 1..Len(items) |-> items[i].name]

UpTo(n) == [i \in 1..n |-> i]

\* the occurrences of the word "we" in a page, counted on the characters:
\* "we" in either case with no word character on either side
CountWe(page) ==
    LET lo == Lower(page)
    IN  Cardinality({ i \in 1..(Len(lo) - 1) :
            /\ lo[i] = "w" /\ lo[i + 1] = "e"
            /\ (i = 1 \/ lo[i - 1] \notin WordChars)
            /\ (i + 1 = Len(lo) \/ lo[i + 2] \notin WordChars) })

MetricKeys ==
    { "page_count", "hedging_per_100", "section_count", "citation_count",
      "reference_count", "paragraph_length_std", "paragraph_length_mean",
      "avg_decimal_places", "round_number_ratio", "transitions_per_page",
      "contribution_list_items", "abstract_word_count", "sentence_length_std" }

MetricsDone == pc \in {"called_metrics", "done"}

NoPages == getattr(self, "page_texts", <<>>) = <<>>

\* C1: when compare_papers returns, results['base'] and results['we_stats']
\* each hold exactly the names of the input mapping, once each, in the input
\* mapping's order.
C1_ResultsKeyedInInputOrder ==
    returned.done =>
        /\ returned.value.base.keys = Names(papers)
        /\ returned.value.we_stats.keys = Names(papers)
        /\ DOMAIN returned.value.base.val = Range(Names(papers))
        /\ DOMAIN returned.value.we_stats.val = Range(Names(papers))

\* compare_papers returned the results of two papers given in an order that
\* is not the alphabetical one
C1_Witness ==
    /\ returned.done
    /\ Names(papers) = <<"zeta", "alpha">>
    /\ returned.value.base.keys = <<"zeta", "alpha">>

\* C2: calculate_metrics returns the same thirteen keys for every text, each
\* a number; for the empty text and no pages page_count is the analyzer's
\* page_count as given, every other metric is 0 and so is every aggregate of
\* the self-reference stats.
C2_FixedKeysZeroOnEmpty ==
    /\ MetricsDone =>
        /\ DOMAIN metrics = MetricKeys
        /\ \A k \in MetricKeys : metrics[k].d > 0 /\ metrics[k].n >= 0
        /\ (text = <<>> /\ NoPages) =>
              /\ metrics["page_count"] = Num(getattr(self, "page_count", 0))
              /\ \A k \in MetricKeys \ {"page_count"} : metrics[k] = Zero
    /\ (pc = "done" /\ text = <<>> /\ NoPages) =>
        /\ we_stats.we_count_per_page = EmptyDict
        /\ we_stats.we_count_total = Zero
        /\ we_stats.we_count_per_page_min = Zero
        /\ we_stats.we_count_per_page_max = Zero
        /\ we_stats.we_count_per_page_avg = Zero
        /\ we_stats.we_per_1000 = Zero

\* both functions ran on the empty text with no pages and a page_count of 2
C2_Witness ==
    /\ pc = "done"
    /\ text = <<>>
    /\ NoPages
    /\ getattr(self, "page_count", 0) = 2
    /\ metrics["page_count"] = Num(2)

\* C3: for N page texts we_count_per_page has exactly N entries, keyed 1..N
\* in page order, entry i the count of the i-th page.
C3_WePerPageKeyedByPage ==
    pc = "done" =>
        LET pt == getattr(self, "page_texts", <<>>)
            d == we_stats.we_count_per_page
        IN  /\ d.keys = UpTo(Len(pt))
            /\ DOMAIN d.val = 1..Len(pt)
            /\ \A i \in 1..Len(pt) : d.val[i] = CountWe(pt[i])

\* two pages with different counts
C3_Witness ==
    /\ pc = "done"
    /\ Len(getattr(self, "page_texts", <<>>)) = 2
    /\ we_stats.we_count_per_page.keys = <<1, 2>>
    /\ we_stats.we_count_per_page.val[1] # we_stats.we_count_per_page.val[2]

WeExamplePages == << <<"w","e"," ","s","h","o","w"," ","w","e"," ","c","a","n">>, <<"W","e"," ","a","l","s","o"," ","s","h","o","w">> >>

WeExampleRan == pc = "done" /\ getattr(self, "page_texts", <<>>) = WeExamplePages

\* C4 as stated: for the pages "we show we can", "We also show" the per-page
\* counts are {1: 2, 2: 2}, total 4, min 2, max 2, average 2.0.
C4_WeExampleAsStated ==
    WeExampleRan =>
        /\ we_stats.we_count_per_page = [keys |-> <<1, 2>>, val |-> <<2, 2>>]
        /\ we_stats.we_count_total = Num(4)
        /\ we_stats.we_count_per_page_min = Num(2)
        /\ we_stats.we_count_per_page_max = Num(2)
        /\ we_stats.we_count_per_page_avg = Num(2)

\* C4, amended: for the pages "we show we can", "We also show" the per-page
\* counts are {1: 2, 2: 1}, total 3, min 1, max 2, average 1.5.
C4_WeExampleAmended ==
    WeExampleRan =>
        /\ we_stats.we_count_per_page.keys = <<1, 2>>
        /\ we_stats.we_count_per_page.val[1] = 2
        /\ we_stats.we_count_per_page.val[2] = 1
        /\ we_stats.we_count_total = Num(3)
        /\ we_stats.we_count_per_page_min = Num(1)
        /\ we_stats.we_count_per_page_max = Num(2)
        /\ we_stats.we_count_per_page_avg = Rat(3, 2)

C4_Witness == WeExampleRan /\ we_stats.we_count_total = Num(3)

AbstractExample == <<"A","b","s","t","r","a","c","t",":"," ","T","h","i","s"," ","p","a","p","e","r"," ","s","t","u","d","i","e","s"," ","X","."," ","I","n","t","r","o","d","u","c","t","i","o","n",":"," ",".",".",".">>

AbstractExampleRan == MetricsDone /\ text = AbstractExample

\* C5 as stated: for "Abstract: This paper studies X. Introduction: ..."
\* abstract_word_count is 5.
C5_AbstractExampleAsStated ==
    AbstractExampleRan => metrics["abstract_word_count"] = Num(5)

\* C5, amended: for "Abstract: This paper studies X. Introduction: ..."
\* abstract_word_count is 4, the whitespace-separated word count of the text
\* between the label and 'Introduction', "This paper studies X. ".
C5_AbstractExampleAmended ==
    AbstractExampleRan => metrics["abstract_word_count"] = Num(4)

C5_Witness == AbstractExampleRan /\ metrics["abstract_word_count"] = Num(4)

\* a references header, read off the characters: one of the header words in
\* any case ("reference" with or without an s), then white space up to and
\* including a line break
HeaderWords ==
    { <<"r","e","f","e","r","e","n","c","e">>, <<"b","i","b","l","i","o","g","r","a","p","h","y">>, <<"w","o","r","k","s"," ","c","i","t","e","d">> }

HasRefHeader(t) ==
    LET lo == Lower(t)
    IN  \E w \in HeaderWords : \E i \in 1..Len(lo) :
          /\ i + Len(w) - 1 <= Len(lo)
          /\ SubSeq(lo, i, i + Len(w) - 1) = w
          /\ \E a \in {i + Len(w), i + Len(w) + 1} :
               /\ a = i + Len(w) + 1 => (w = <<"r","e","f","e","r","e","n","c","e">> /\ a - 1 <= Len(lo) /\ lo[a - 1] = "s")
               /\ \E j \in a..Len(lo) :
                    lo[j] = "\n" /\ \A k \in a..(j - 1) : lo[k] \in Spaces

CitationExample == <<"s","e","e"," ","[","1","]"," ","a","n","d"," ","[","2","]">>

\* C6: with no references header in the text reference_count equals
\* citation_count (2 and 2 for a text with [1] and [2] once each); with a
\* header it is the number of qualifying lines of the section.
C6_ReferenceFallback ==
    MetricsDone =>
        /\ IF HasRefHeader(text)
           THEN metrics["reference_count"]
                    = Num(Cardinality(ref_entries(ref_section(text).group)))
           ELSE metrics["reference_count"] = metrics["citation_count"]
        /\ text = CitationExample =>
              metrics["citation_count"] = Num(2) /\ metrics["reference_count"] = Num(2)

\* the example ran: no header, two distinct citations
C6_Witness ==
    /\ MetricsDone
    /\ text = CitationExample
    /\ ~HasRefHeader(text)
    /\ metrics["reference_count"] = Num(2)

\* C7 as stated: an 'AIGen' paper has at most aigen_page_limit pages
\* extracted and a page_count of min(aigen_page_limit, total pages), also for
\* a limit of 0; any other paper has all its pages extracted.
C7_AIGenPagesBounded ==
    pc = "record" =>
        LET limit == self["aigen_page_limit"]
            total == Len(pdf_file)
        IN  IF papers[idx].info.type = "AIGen"
            THEN /\ Len(self["page_texts"]) <= limit
                 /\ metrics["page_count"] = Num(Min(limit, total))
            ELSE /\ Len(self["page_texts"]) = total
                 /\ metrics["page_count"] = Num(total)

\* C8: papers are fetched one at a time in input order, each one recorded
\* before the next is fetched; once a fetch or an extraction fails the error
\* leaves compare_papers: nothing more is fetched and nothing is returned.
C8_SequentialAbortOnFailure ==
    /\ fetched = SubSeq(Names(papers), 1, Len(fetched))
    /\ Len(fetched) = IF pc \in {"loop", "fetch", "returned"} THEN idx - 1 ELSE idx
    /\ results.base.keys = SubSeq(Names(papers), 1, idx - 1)
    /\ results.we_stats.keys = SubSeq(Names(papers), 1, idx - 1)
    /\ error # "" => (pc = "raised" /\ ~returned.done /\ ~ENABLED Next)
    /\ returned.done => error = ""

\* the second paper failed after the first was recorded
C8_Witness ==
    /\ pc = "raised"
    /\ idx = 2
    /\ Len(papers) = 2
    /\ Len(results.base.keys) = 1
    /\ ~returned.done

\* C9: the entries recorded for a paper come from its own extracted pages:
\* page_count is their number and we_count_per_page has one entry per page
\* of it, whatever was analyzed before on the same analyzer.
C9_NoStateCarriedOver ==
    \A n \in Range(results.base.keys) :
        LET own == extracted[n]
            d == results.we_stats.val[n].we_count_per_page
        IN  /\ results.base.val[n]["page_count"] = Num(Len(own))
            /\ d.keys = UpTo(Len(own))
            /\ \A i \in 1..Len(own) : d.val[i] = CountWe(own[i])

\* a paper recorded after one with more pages
C9_Witness ==
    /\ Len(results.base.keys) = 2
    /\ Len(extracted[results.base.keys[1]]) > Len(extracted[results.base.keys[2]])
    /\ Len(extracted[results.base.keys[2]]) > 0

\* the sentences the paragraph loop keeps: those that are not blank
KeptSentences(t) == SelectSeq(sentences_of(t), LAMBDA x : Len(Strip(x)) > 0)

\* the position in KeptSentences of sentence p of paragraph k
KeptIndex(groups, k, p) == SumSeq([j \in 1..(k - 1) |-> Len(groups[j])]) + p

\* C10: a new paragraph starts exactly at a non-blank sentence that holds a
\* double line break or that finds more than 3 sentences in the current
\* paragraph; so every paragraph has 1 to 4 sentences, blank sentences are
\* skipped, and the paragraphs in order are the non-blank sentences in order.
C10_ParagraphGrouping ==
    MetricsDone =>
        LET kept == KeptSentences(text)
        IN  /\ \A k \in 1..Len(para_lists) : Len(para_lists[k]) \in 1..4
            /\ Flatten(para_lists) = [i \in 1..Len(kept) |-> Strip(kept[i])]
            /\ \A k \in 1..Len(para_lists) : \A p \in 1..Len(para_lists[k]) :
                 (k > 1 \/ p > 1) =>
                    LET sent == kept[KeptIndex(para_lists, k, p)]
                        before == IF p = 1 THEN Len(para_lists[k - 1]) ELSE p - 1
                    IN  (p = 1) <=> (Contains(sent, <<"\n", "\n">>) \/ before > 3)

\* a paragraph closed at 4 sentences, one closed by a double line break
C10_Witness ==
    /\ MetricsDone
    /\ \E k \in 1..Len(para_lists) : Len(para_lists[k]) = 4 /\ k < Len(para_lists)
    /\ Len(KeptSentences(text)) < Len(sentences_of(text)) - 1

====
